---- MODULE Spec2Model ----
(***************************************************************************)
(* Token lifecycle of deehyeon/django-chat.                                *)
(*                                                                         *)
(* Two independent modules issue and check JWT pairs:                      *)
(*   apps/user/utils.py    per-token blacklist in the Django cache         *)
(*   apps/oauth2/utils.py  one stored refresh token per user in Redis      *)
(* The variable app says which module the behaviour exercises; the two     *)
(* share no state (different stores, different keys).                      *)
(*                                                                         *)
(* Time is counted in ticks, TicksPerSec ticks to the second, so that the  *)
(* truncations int(now.timestamp()) and int(time.time()) are not the       *)
(* identity.  A token is the record of the claims it carries plus wire,    *)
(* the state of its compact serialisation: "ok" as issued, "badsig" with   *)
(* a signature segment that decodes to other bytes, "padbits" with the     *)
(* last signature character replaced by one that differs in the two unused *)
(* trailing bits only; Garbage is a string that does not parse.            *)
(***************************************************************************)
EXTENDS Integers, FiniteSets, Sequences, Bags, TLC

VARIABLES
    app,                    \* "user" or "oauth2": the utils module in use
    now,                    \* wall clock, in ticks
    storeUp,                \* the Redis server answers
    JWT_REFRESH_ROTATE,     \* apps/user/utils.py setting
    JWT_REFRESH_BLACKLIST,  \* apps/user/utils.py setting
    tokens,                 \* token strings handed to callers so far
    nextJti,                \* uuid4 source: the next unused token id
    cache,                  \* Django cache: blacklist key -> expiry tick
    redis,                  \* Redis db: user id -> stored refresh token
    _client,                \* RedisClient._client
    procs,                  \* bag of the refresh calls in flight (step-wise handlers)
    room,                   \* what the model keeps and presents: .tokens, how many
                            \* token strings; .wires, the alterations of them
    last,                   \* the call that returned in the last step
    blacklisted,            \* history: jtis a cache.set has revoked
    refreshed,              \* history: token -> successful refreshes it was used for
    loggedOut               \* history: users for whom apps/oauth2/utils.py logout
                            \* returned True, and no login since

vars == <<app, now, storeUp, JWT_REFRESH_ROTATE, JWT_REFRESH_BLACKLIST, tokens,
          nextJti, cache, redis, _client, procs, room, last, blacklisted, refreshed,
          loggedOut>>

---------------------------------------------------------------------------
(* Bounds of the model *)

\* ticks per second of the model clock
TicksPerSec == 2
\* the clock stops advancing at this tick
MaxNow == 6
\* number of issued token strings whose later presentation is explored (the
\* strings issued beyond it are returned to their caller and never presented)
MaxTokens == 4
\* the same, where _make_jwt is called directly
MaxTokensEncode == 2
\* the same, where the refresh handlers run step by step
MaxTokensConc == 2
\* the same, where the two settings of apps/user/utils.py take every value
MaxTokensCfg == 2
\* the same, where every one-character change of a signature is presented
MaxTokensTamper == 2
\* the same, where the calls come in through the HTTP views
MaxTokensView == 2
\* token strings kept in the runs of the Redis client singleton
MaxTokensRedis == 2
\* number of refresh calls that can be in flight at once
NumProcs == 3
\* apps/user/utils.py:26-27 JWT_ACCESS_TTL / JWT_REFRESH_TTL, in seconds.
\* Both are settings (any integer); the defaults 900 and 604800 are scaled
\* down so that expiry falls inside the explored clock range.
JWT_ACCESS_TTL == 1
JWT_REFRESH_TTL == 2

Users == {1, 2}

---------------------------------------------------------------------------
(* Time *)

\* int(now.timestamp()), int(time.time()): whole seconds of tick t
IntTime(t) == t \div TicksPerSec

Max(a, b) == IF a >= b THEN a ELSE b

---------------------------------------------------------------------------
(* Outcomes: the value returned or the exception raised *)

OK == "ok"
ExpiredSignatureError == "jwt.ExpiredSignatureError"
InvalidSignatureError == "jwt.InvalidSignatureError"
DecodeError == "jwt.DecodeError"
ImmatureSignatureError == "jwt.ImmatureSignatureError"
NotRefresh == "jwt.InvalidTokenError: Not a refresh token."
Blacklisted == "jwt.InvalidTokenError: Refresh token is blacklisted (logged out or rotated)."
ConnectionInterrupted == "django_redis.exceptions.ConnectionInterrupted"
RedisConnectionError == "redis.exceptions.ConnectionError"
None == "None"

\* the outcomes that are exceptions leaving the function
Raises == {ExpiredSignatureError, InvalidSignatureError, DecodeError,
           ImmatureSignatureError, NotRefresh, Blacklisted,
           ConnectionInterrupted, RedisConnectionError}

NoCall == [op |-> "none"]

---------------------------------------------------------------------------
(* apps/user/utils.py *)

\* str(user_id)
str(user_id) == <<"str", user_id>>

\* mutant: every token carries the same token id
_make_jwt_FixedJti(payload, ttl_seconds, t, jti) ==
    [typ |-> payload.typ, sub |-> payload.sub, uid |-> payload.uid,
     iat |-> IntTime(t), nbf |-> IntTime(t),
     exp |-> IntTime(t + ttl_seconds * TicksPerSec),
     jti |-> 1, wire |-> "ok"]

\* mutant: the token lives one second at least
_make_jwt_MinTtl(payload, ttl_seconds, t, jti) ==
    [typ |-> payload.typ, sub |-> payload.sub, uid |-> payload.uid,
     iat |-> IntTime(t), nbf |-> IntTime(t),
     exp |-> IntTime(t + Max(ttl_seconds, 1) * TicksPerSec),
     jti |-> jti, wire |-> "ok"]

\* _make_jwt at tick t, uuid4 returning jti
_make_jwt(payload, ttl_seconds, t, jti) ==
    [typ |-> payload.typ, sub |-> payload.sub, uid |-> payload.uid,
     iat |-> IntTime(t), nbf |-> IntTime(t),
     exp |-> IntTime(t + ttl_seconds * TicksPerSec),
     jti |-> jti, wire |-> "ok"]

\* mutant: the signature is not verified
SignatureMatches_Any(token) == TRUE

\* jwt.decode's signature check. The signature segment is base64url-decoded
\* by base64.urlsafe_b64decode, which ignores the unused trailing bits of the
\* last character (43 characters carry 258 bits, an HS256 signature has 256):
\* a "padbits" string decodes to the very bytes that were signed.
SignatureMatches(token) == token.wire \in {"ok", "padbits"}

\* mutant: expiry compared with < (a token is still taken at the very second
\* of its exp)
_decode_jwt_ExpInclusive(token, verify_exp, t) ==
    IF token.wire = "malformed" THEN DecodeError
    ELSE IF ~SignatureMatches(token) THEN InvalidSignatureError
    ELSE IF token.nbf * TicksPerSec > t THEN ImmatureSignatureError
    ELSE IF verify_exp /\ (token.exp + 1) * TicksPerSec <= t THEN ExpiredSignatureError
    ELSE OK

\* _decode_jwt: jwt.decode checks the serialisation, the signature, then nbf
\* and (verify_exp) exp against the clock; PyJWT 2 raises on exp <= now.
_decode_jwt(token, verify_exp, t) ==
    IF token.wire = "malformed" THEN DecodeError
    ELSE IF ~SignatureMatches(token) THEN InvalidSignatureError
    ELSE IF token.nbf * TicksPerSec > t THEN ImmatureSignatureError
    ELSE IF verify_exp /\ token.exp * TicksPerSec <= t THEN ExpiredSignatureError
    ELSE OK

\* mutant: one key for every token id
_blacklist_key_Shared(jti) == <<"jwt:refresh:blacklist:", 0>>

_blacklist_key(jti) == <<"jwt:refresh:blacklist:", jti>>

\* the cache after cache.set(key, True, ttl) at tick t
CacheSet(c, key, ttl, t) ==
    [k \in DOMAIN c \cup {key} |-> IF k = key THEN t + ttl * TicksPerSec ELSE c[k]]

\* cache.get(key) at tick t: the key is there and has not run out
CacheGet(c, key, t) == key \in DOMAIN c /\ c[key] > t

\* mutant: a fixed one-second TTL
BlacklistTtl_One(exp_ts, t) == 1

\* mutant: the remaining lifetime as it is, without the floor of one second
BlacklistTtl_NoFloor(exp_ts, t) == exp_ts - IntTime(t)

\* the TTL _blacklist_refresh_token gives the record
BlacklistTtl(exp_ts, t) == Max(exp_ts - IntTime(t), 1)

_blacklist_refresh_token(c, jti, exp_ts, t) ==
    CacheSet(c, _blacklist_key(jti), BlacklistTtl(exp_ts, t), t)

\* mutant: the blacklist is never found to hold the token
_is_refresh_blacklisted_Never(c, jti, t) == FALSE

_is_refresh_blacklisted(c, jti, t) == CacheGet(c, _blacklist_key(jti), t)

\* mutant: the access token is given the payload of the refresh token
generate_jwt_tokens_AccessAsRefresh(user_id, t, j) ==
    [access  |-> _make_jwt([typ |-> "refresh", sub |-> str(user_id), uid |-> str(user_id)],
                           JWT_ACCESS_TTL, t, j),
     refresh |-> _make_jwt([typ |-> "refresh", sub |-> str(user_id), uid |-> str(user_id)],
                           JWT_REFRESH_TTL, t, j + 1)]

\* generate_jwt_tokens(user): the pair, with token ids j and j + 1
generate_jwt_tokens(user_id, t, j) ==
    [access  |-> _make_jwt([typ |-> "access", sub |-> str(user_id), uid |-> str(user_id)],
                           JWT_ACCESS_TTL, t, j),
     refresh |-> _make_jwt([typ |-> "refresh", sub |-> str(user_id), uid |-> str(user_id)],
                           JWT_REFRESH_TTL, t, j + 1)]

\* mutant: the store is consulted before the token is decoded
verify_refresh_token_StoreFirst(token, c, up, bl, t) ==
    LET d == _decode_jwt(token, TRUE, t) IN
    IF bl /\ ~up THEN ConnectionInterrupted
    ELSE IF d # OK THEN d
    ELSE IF token.typ # "refresh" THEN NotRefresh
    ELSE IF bl /\ _is_refresh_blacklisted(c, token.jti, t) THEN Blacklisted
    ELSE OK

\* mutant: an unreachable store counts as "not blacklisted"
verify_refresh_token_FailOpen(token, c, up, bl, t) ==
    LET d == _decode_jwt(token, TRUE, t) IN
    IF d # OK THEN d
    ELSE IF token.typ # "refresh" THEN NotRefresh
    ELSE IF bl /\ up /\ _is_refresh_blacklisted(c, token.jti, t) THEN Blacklisted
    ELSE OK

\* mutant: a blacklisted token is refused with the exception of a wrong type
verify_refresh_token_OneMessage(token, c, up, bl, t) ==
    LET d == _decode_jwt(token, TRUE, t) IN
    IF d # OK THEN d
    ELSE IF token.typ # "refresh" THEN NotRefresh
    ELSE IF bl
         THEN IF ~up THEN ConnectionInterrupted
              ELSE IF _is_refresh_blacklisted(c, token.jti, t) THEN NotRefresh
              ELSE OK
    ELSE OK

\* mutant: the blacklist is looked up whatever JWT_REFRESH_BLACKLIST says
verify_refresh_token_AlwaysLookup(token, c, up, bl, t) ==
    LET d == _decode_jwt(token, TRUE, t) IN
    IF d # OK THEN d
    ELSE IF token.typ # "refresh" THEN NotRefresh
    ELSE IF ~up THEN ConnectionInterrupted
    ELSE IF _is_refresh_blacklisted(c, token.jti, t) THEN Blacklisted
    ELSE OK

\* verify_refresh_token: OK (the payload is returned) or the exception raised
verify_refresh_token(token, c, up, bl, t) ==
    LET d == _decode_jwt(token, TRUE, t) IN
    IF d # OK THEN d
    ELSE IF token.typ # "refresh" THEN NotRefresh
    ELSE IF bl
         THEN IF ~up THEN ConnectionInterrupted
              ELSE IF _is_refresh_blacklisted(c, token.jti, t) THEN Blacklisted
              ELSE OK
    ELSE OK

\* mutant: an access token is refused once the refresh token issued with it
\* (the next token id) is blacklisted, or when the store does not answer
verify_access_token_Revocable(token, t) ==
    IF _decode_jwt(token, TRUE, t) # OK THEN None
    ELSE IF token.typ # "access" THEN None
    ELSE IF ~storeUp \/ _is_refresh_blacklisted(cache, token.jti + 1, t) THEN None
    ELSE OK

\* mutant: the type claim is not looked at
verify_access_token_NoTypeCheck(token, t) ==
    IF _decode_jwt(token, TRUE, t) # OK THEN None ELSE OK

\* verify_access_token: OK (the payload is returned) or None
verify_access_token(token, t) ==
    IF _decode_jwt(token, TRUE, t) # OK THEN None
    ELSE IF token.typ # "access" THEN None
    ELSE OK

\* mutant: rotation issues the new pair and forgets the blacklist write
refresh_issue_NoBlacklist(token, c, up, rot, bl, t, j) ==
    LET user_id == token.uid
        new_access == _make_jwt([typ |-> "access", sub |-> user_id, uid |-> user_id],
                                JWT_ACCESS_TTL, t, j)
        new_refresh == _make_jwt([typ |-> "refresh", sub |-> user_id, uid |-> user_id],
                                 JWT_REFRESH_TTL, t, j + 1)
    IN  [out |-> OK, cache |-> c,
         ret |-> IF rot THEN [access |-> new_access, refresh |-> new_refresh]
                 ELSE [access |-> new_access]]

\* mutant: the presented token is blacklisted whether rotation is on or not
refresh_issue_AlwaysBlacklist(token, c, up, rot, bl, t, j) ==
    LET user_id == token.uid
        new_access == _make_jwt([typ |-> "access", sub |-> user_id, uid |-> user_id],
                                JWT_ACCESS_TTL, t, j)
        new_refresh == _make_jwt([typ |-> "refresh", sub |-> user_id, uid |-> user_id],
                                 JWT_REFRESH_TTL, t, j + 1)
        write == bl /\ token.exp # 0
    IN  IF write /\ ~up
        THEN [out |-> ConnectionInterrupted, cache |-> c, ret |-> << >>]
        ELSE [out |-> OK,
              cache |-> IF write THEN _blacklist_refresh_token(c, token.jti, token.exp, t)
                        ELSE c,
              ret |-> IF rot THEN [access |-> new_access, refresh |-> new_refresh]
                      ELSE [access |-> new_access]]

\* mutant: the new refresh token keeps the token id of the old one
refresh_issue_ReuseJti(token, c, up, rot, bl, t, j) ==
    LET user_id == token.uid
        new_access == _make_jwt([typ |-> "access", sub |-> user_id, uid |-> user_id],
                                JWT_ACCESS_TTL, t, j)
        new_refresh == _make_jwt([typ |-> "refresh", sub |-> user_id, uid |-> user_id],
                                 JWT_REFRESH_TTL, t, token.jti)
        write == rot /\ bl /\ token.exp # 0
    IN  IF write /\ ~up
        THEN [out |-> ConnectionInterrupted, cache |-> c, ret |-> << >>]
        ELSE [out |-> OK,
              cache |-> IF write THEN _blacklist_refresh_token(c, token.jti, token.exp, t)
                        ELSE c,
              ret |-> IF rot THEN [access |-> new_access, refresh |-> new_refresh]
                      ELSE [access |-> new_access]]

\* refresh_access_token after verify_refresh_token returned the payload:
\* the new access token, the blacklist write, the new refresh token.
\* [out, cache, ret]: outcome, the cache afterwards, the dict returned.
refresh_issue(token, c, up, rot, bl, t, j) ==
    LET user_id == token.uid
        new_access == _make_jwt([typ |-> "access", sub |-> user_id, uid |-> user_id],
                                JWT_ACCESS_TTL, t, j)
        new_refresh == _make_jwt([typ |-> "refresh", sub |-> user_id, uid |-> user_id],
                                 JWT_REFRESH_TTL, t, j + 1)
        write == rot /\ bl /\ token.exp # 0
    IN  IF write /\ ~up
        THEN [out |-> ConnectionInterrupted, cache |-> c, ret |-> << >>]
        ELSE [out |-> OK,
              cache |-> IF write THEN _blacklist_refresh_token(c, token.jti, token.exp, t)
                        ELSE c,
              ret |-> IF rot THEN [access |-> new_access, refresh |-> new_refresh]
                      ELSE [access |-> new_access]]

\* refresh_access_token(refresh_token)
refresh_access_token(token, c, up, rot, bl, t, j) ==
    LET v == verify_refresh_token(token, c, up, bl, t) IN
    IF v # OK THEN [out |-> v, cache |-> c, ret |-> << >>]
    ELSE refresh_issue(token, c, up, rot, bl, t, j)

\* mutant: logout returns without writing the record
logout_NoWrite(token, c, up, bl, t) == [out |-> None, cache |-> c]

\* mutant: logout decodes without the expiry check
logout_NoExpiryCheck(token, c, up, bl, t) ==
    IF _decode_jwt(token, FALSE, t) # OK THEN [out |-> None, cache |-> c]
    ELSE IF token.typ # "refresh" THEN [out |-> None, cache |-> c]
    ELSE IF bl /\ token.exp # 0
         THEN IF ~up THEN [out |-> ConnectionInterrupted, cache |-> c]
              ELSE [out |-> None,
                    cache |-> _blacklist_refresh_token(c, token.jti, token.exp, t)]
    ELSE [out |-> None, cache |-> c]

\* logout(refresh_token): [out, cache]
logout(token, c, up, bl, t) ==
    IF _decode_jwt(token, TRUE, t) # OK THEN [out |-> None, cache |-> c]
    ELSE IF token.typ # "refresh" THEN [out |-> None, cache |-> c]
    ELSE IF bl /\ token.exp # 0
         THEN IF ~up THEN [out |-> ConnectionInterrupted, cache |-> c]
              ELSE [out |-> None,
                    cache |-> _blacklist_refresh_token(c, token.jti, token.exp, t)]
    ELSE [out |-> None, cache |-> c]

\* the token strings of a returned dict
Values(ret) == {ret[k] : k \in DOMAIN ret}

\* a string that is no JWT at all
Garbage == [wire |-> "malformed"]

\* what callers may present: every token handed out, as issued or with one
\* character of its signature segment changed, and a string that does not parse
Presentable ==
    tokens \cup {[x EXCEPT !.wire = w] : x \in tokens, w \in room.wires}
           \cup {Garbage}

\* history: one more successful refresh with token x (counted up to NumProcs)
Count(f, x) == IF x \in DOMAIN f THEN f[x] ELSE 0
Bump(f, x) ==
    [k \in DOMAIN f \cup {x} |->
        IF k # x THEN f[k]
        ELSE IF Count(f, x) < NumProcs THEN Count(f, x) + 1 ELSE NumProcs]

\* the token id of a presented string (0 for a string that carries none)
Jti(x) == IF "jti" \in DOMAIN x THEN x.jti ELSE 0

\* room for the strings of ret among the tokens the model keeps
Room(ret) == Cardinality(tokens \cup Values(ret)) <= room.tokens

\* the tokens kept once ret has been returned, and the next unused token id
Keep(ret) == IF Room(ret) THEN tokens \cup Values(ret) ELSE tokens
NextId(ret) == IF Room(ret) THEN nextJti + Cardinality(DOMAIN ret) ELSE nextJti

\* login: generate_jwt_tokens(user)
UserLogin(u) ==
    /\ app = "user"
    /\ LET pair == generate_jwt_tokens(u, now, nextJti) IN
       /\ tokens' = Keep(pair)
       /\ nextJti' = NextId(pair)
       /\ last' = [op |-> "generate_jwt_tokens", user |-> u, out |-> OK, ret |-> pair,
                   up |-> storeUp]
    /\ UNCHANGED <<app, now, storeUp, JWT_REFRESH_ROTATE, JWT_REFRESH_BLACKLIST,
                   cache, redis, _client, procs, room, blacklisted, refreshed,
                   loggedOut>>

UserVerifyRefresh(x) ==
    /\ app = "user"
    /\ last' = [op |-> "verify_refresh_token", tok |-> x,
                out |-> verify_refresh_token(x, cache, storeUp, JWT_REFRESH_BLACKLIST, now),
                up |-> storeUp]
    /\ UNCHANGED <<app, now, storeUp, JWT_REFRESH_ROTATE, JWT_REFRESH_BLACKLIST, tokens,
                   nextJti, cache, redis, _client, procs, room, blacklisted, refreshed,
                   loggedOut>>

UserVerifyAccess(x) ==
    /\ app = "user"
    /\ last' = [op |-> "verify_access_token", tok |-> x,
                out |-> verify_access_token(x, now), up |-> storeUp]
    /\ UNCHANGED <<app, now, storeUp, JWT_REFRESH_ROTATE, JWT_REFRESH_BLACKLIST, tokens,
                   nextJti, cache, redis, _client, procs, room, blacklisted, refreshed,
                   loggedOut>>

\* the handler refresh_access_token, start to return
UserRefresh(x) ==
    /\ app = "user"
    /\ LET r == refresh_access_token(x, cache, storeUp, JWT_REFRESH_ROTATE,
                                     JWT_REFRESH_BLACKLIST, now, nextJti) IN
       /\ cache' = r.cache
       /\ tokens' = Keep(r.ret)
       /\ nextJti' = NextId(r.ret)
       /\ last' = [op |-> "refresh_access_token", tok |-> x, out |-> r.out,
                   ret |-> r.ret, up |-> storeUp, failed |-> r.out = ConnectionInterrupted,
                   again |-> x \in DOMAIN refreshed, revoked |-> Jti(x) \in blacklisted]
       /\ blacklisted' = IF r.cache # cache THEN blacklisted \cup {x.jti} ELSE blacklisted
       /\ refreshed' = IF r.out = OK THEN Bump(refreshed, x) ELSE refreshed
    /\ UNCHANGED <<app, now, storeUp, JWT_REFRESH_ROTATE, JWT_REFRESH_BLACKLIST,
                   redis, _client, procs, room,
                   loggedOut>>

\* the handler logout, start to return
UserLogout(x) ==
    /\ app = "user"
    /\ LET r == logout(x, cache, storeUp, JWT_REFRESH_BLACKLIST, now) IN
       /\ cache' = r.cache
       /\ last' = [op |-> "logout", tok |-> x, out |-> r.out, up |-> storeUp,
                   failed |-> r.out = ConnectionInterrupted]
       /\ blacklisted' = IF r.cache # cache THEN blacklisted \cup {x.jti} ELSE blacklisted
    /\ UNCHANGED <<app, now, storeUp, JWT_REFRESH_ROTATE, JWT_REFRESH_BLACKLIST, tokens,
                   nextJti, redis, _client, procs, room, refreshed,
                   loggedOut>>

\* a direct call _make_jwt(payload, ttl_seconds) with a TTL of the caller's
\* choosing, as a test of the helper makes it
UserMakeJwt(typ, u, ttl_seconds) ==
    /\ app = "user"
    /\ LET tok == _make_jwt([typ |-> typ, sub |-> str(u), uid |-> str(u)],
                            ttl_seconds, now, nextJti) IN
       /\ tokens' = Keep([token |-> tok])
       /\ nextJti' = NextId([token |-> tok])
       /\ last' = [op |-> "_make_jwt", ttl |-> ttl_seconds, out |-> OK,
                   ret |-> [token |-> tok], up |-> storeUp]
    /\ UNCHANGED <<app, now, storeUp, JWT_REFRESH_ROTATE, JWT_REFRESH_BLACKLIST,
                   cache, redis, _client, procs, room, blacklisted, refreshed,
                   loggedOut>>

---------------------------------------------------------------------------
(* apps/oauth2/redis_client.py and apps/oauth2/utils.py *)

\* settings.JWT_ACCESS_TOKEN_EXPIRE_MINUTES and JWT_REFRESH_TOKEN_EXPIRE_DAYS
\* (mysite/settings.py:85-86), in seconds and scaled like the TTLs above
JWT_ACCESS_TOKEN_EXPIRE == 1
JWT_REFRESH_TOKEN_EXPIRE == 2

\* the user table CustomUser.objects; rows are not deleted in this model
CustomUser == Users

\* get_client as it would be if a failed ping dropped the client it created
get_client_DropOnFailure(cl, up) ==
    IF cl = "None"
    THEN IF up THEN [out |-> OK, client |-> "pinged"]
         ELSE [out |-> RedisConnectionError, client |-> "None"]
    ELSE [out |-> OK, client |-> cl]

\* RedisClient.get_client: [out, client].  _client is assigned before the
\* ping, so a failed ping leaves the untested client in place.
get_client(cl, up) ==
    IF cl = "None"
    THEN IF up THEN [out |-> OK, client |-> "pinged"]
         ELSE [out |-> RedisConnectionError, client |-> "unpinged"]
    ELSE [out |-> OK, client |-> cl]

\* one command sent through get_redis_client(): [out, client]
RedisCall(cl, up) ==
    LET g == get_client(cl, up) IN
    IF g.out # OK THEN g
    ELSE IF ~up THEN [out |-> RedisConnectionError, client |-> g.client]
    ELSE g

\* the key f"jwt:refresh:{user_id}"
RedisKey(user_id) == <<"jwt:refresh:", user_id>>

\* redis.setex(key, ttl, value) at tick t
Setex(r, key, ttl, value, t) ==
    [k \in DOMAIN r \cup {key} |->
        IF k = key THEN [val |-> value, expireAt |-> t + ttl * TicksPerSec] ELSE r[k]]

\* redis.delete(key)
Delete(r, key) == [k \in DOMAIN r \ {key} |-> r[k]]

\* what redis.get returns for a key that is not there (Python's None)
Nil == [wire |-> "None"]

\* redis.get(key) at tick t: the stored value, or None
Get(r, key, t) ==
    IF key \in DOMAIN r /\ r[key].expireAt > t THEN r[key].val ELSE Nil

\* jwt.encode of the two payloads of generate_jwt_tokens at tick t; PyJWT
\* turns the datetimes iat and exp into whole seconds
oauth2_encode(typ, user_id, ttl_seconds, t) ==
    [typ |-> typ, user_id |-> user_id, iat |-> IntTime(t),
     exp |-> IntTime(t) + ttl_seconds, wire |-> "ok"]

\* jwt.decode(token, SECRET_KEY, algorithms=['HS256'])
oauth2_decode(token, t) ==
    IF token.wire = "malformed" THEN DecodeError
    ELSE IF ~SignatureMatches(token) THEN InvalidSignatureError
    ELSE IF token.exp * TicksPerSec <= t THEN ExpiredSignatureError
    ELSE OK

\* mutant: the refresh token is stored only if the user's key is absent
oauth2_generate_jwt_tokens_KeepStored(user_id, r, cl, up, t) ==
    LET access_token == oauth2_encode("access", user_id, JWT_ACCESS_TOKEN_EXPIRE, t)
        refresh_token == oauth2_encode("refresh", user_id, JWT_REFRESH_TOKEN_EXPIRE, t)
        call == RedisCall(cl, up)
    IN  [out |-> OK,
         ret |-> [access_token |-> access_token, refresh_token |-> refresh_token],
         redis |-> IF call.out = OK /\ Get(r, RedisKey(user_id), t) = Nil
                   THEN Setex(r, RedisKey(user_id), JWT_REFRESH_TOKEN_EXPIRE, refresh_token, t)
                   ELSE r,
         client |-> call.client, failed |-> call.out # OK]

\* generate_jwt_tokens(user): [out, ret, redis, client, failed]; a failure
\* of the store (failed) is logged and the pair is returned all the same
oauth2_generate_jwt_tokens(user_id, r, cl, up, t) ==
    LET access_token == oauth2_encode("access", user_id, JWT_ACCESS_TOKEN_EXPIRE, t)
        refresh_token == oauth2_encode("refresh", user_id, JWT_REFRESH_TOKEN_EXPIRE, t)
        call == RedisCall(cl, up)
    IN  [out |-> OK,
         ret |-> [access_token |-> access_token, refresh_token |-> refresh_token],
         redis |-> IF call.out = OK
                   THEN Setex(r, RedisKey(user_id), JWT_REFRESH_TOKEN_EXPIRE, refresh_token, t)
                   ELSE r,
         client |-> call.client, failed |-> call.out # OK]

\* verify_access_token(token): OK (the payload) or None
oauth2_verify_access_token(token, t) ==
    IF oauth2_decode(token, t) # OK THEN None
    ELSE IF token.typ # "access" THEN None
    ELSE OK

\* mutant: the presented string is not compared with the stored one
oauth2_verify_refresh_token_AnyStored(token, r, cl, up, t) ==
    IF oauth2_decode(token, t) # OK THEN [out |-> None, client |-> cl]
    ELSE IF token.typ # "refresh" THEN [out |-> None, client |-> cl]
    ELSE LET call == RedisCall(cl, up)
             stored_token == Get(r, RedisKey(token.user_id), t)
         IN  IF call.out # OK THEN call
             ELSE IF stored_token = Nil
                  THEN [out |-> None, client |-> call.client]
             ELSE [out |-> OK, client |-> call.client]

\* verify_refresh_token(refresh_token): [out, client]; out is OK (the
\* payload), None, or the Redis exception, which no except clause catches
oauth2_verify_refresh_token(token, r, cl, up, t) ==
    IF oauth2_decode(token, t) # OK THEN [out |-> None, client |-> cl]
    ELSE IF token.typ # "refresh" THEN [out |-> None, client |-> cl]
    ELSE LET call == RedisCall(cl, up)
             stored_token == Get(r, RedisKey(token.user_id), t)
         IN  IF call.out # OK THEN call
             ELSE IF stored_token = Nil \/ stored_token # token
                  THEN [out |-> None, client |-> call.client]
             ELSE [out |-> OK, client |-> call.client]

\* refresh_access_token after verify_refresh_token returned the payload and
\* the user row was found: the delete, whose failure is passed over
oauth2_refresh_delete(token, r, cl, up) ==
    LET call == RedisCall(cl, up) IN
    [redis |-> IF call.out = OK THEN Delete(r, RedisKey(token.user_id)) ELSE r,
     client |-> call.client, failed |-> call.out # OK]

\* refresh_access_token(refresh_token): [out, ret, redis, client, failed];
\* failed says that a store call of the handler failed
oauth2_refresh_access_token(token, r, cl, up, t) ==
    LET v == oauth2_verify_refresh_token(token, r, cl, up, t) IN
    IF v.out # OK
    THEN [out |-> v.out, ret |-> << >>, redis |-> r, client |-> v.client,
          failed |-> v.out = RedisConnectionError]
    ELSE IF token.user_id \notin CustomUser
         THEN [out |-> None, ret |-> << >>, redis |-> r, client |-> v.client,
               failed |-> FALSE]
    ELSE LET d == oauth2_refresh_delete(token, r, v.client, up)
             g == oauth2_generate_jwt_tokens(token.user_id, d.redis, d.client, up, t)
         IN  [g EXCEPT !.failed = d.failed \/ g.failed]

\* logout(user_id): [out, redis, client]
oauth2_logout(user_id, r, cl, up) ==
    LET call == RedisCall(cl, up) IN
    IF call.out = OK
    THEN [out |-> "True", redis |-> Delete(r, RedisKey(user_id)), client |-> call.client]
    ELSE [out |-> "False", redis |-> r, client |-> call.client]

\* EmailAuthView / CallbackView: generate_jwt_tokens(user)
OAuthLogin(u) ==
    /\ app = "oauth2"
    /\ LET g == oauth2_generate_jwt_tokens(u, redis, _client, storeUp, now) IN
       /\ redis' = g.redis
       /\ _client' = g.client
       /\ tokens' = Keep(g.ret)
       /\ last' = [op |-> "generate_jwt_tokens", user |-> u, out |-> OK, ret |-> g.ret,
                   up |-> storeUp]
    /\ loggedOut' = loggedOut \ {u}
    /\ UNCHANGED <<app, now, storeUp, JWT_REFRESH_ROTATE, JWT_REFRESH_BLACKLIST,
                   nextJti, cache, procs, room, blacklisted, refreshed>>

OAuthVerifyRefresh(x) ==
    /\ app = "oauth2"
    /\ LET v == oauth2_verify_refresh_token(x, redis, _client, storeUp, now) IN
       /\ _client' = v.client
       /\ last' = [op |-> "verify_refresh_token", tok |-> x, out |-> v.out, up |-> storeUp]
    /\ UNCHANGED <<app, now, storeUp, JWT_REFRESH_ROTATE, JWT_REFRESH_BLACKLIST, tokens,
                   nextJti, cache, redis, procs, room, blacklisted, refreshed,
                   loggedOut>>

OAuthVerifyAccess(x) ==
    /\ app = "oauth2"
    /\ last' = [op |-> "verify_access_token", tok |-> x,
                out |-> oauth2_verify_access_token(x, now), up |-> storeUp]
    /\ UNCHANGED <<app, now, storeUp, JWT_REFRESH_ROTATE, JWT_REFRESH_BLACKLIST, tokens,
                   nextJti, cache, redis, _client, procs, room, blacklisted, refreshed,
                   loggedOut>>

\* the handler refresh_access_token, start to return
OAuthRefresh(x) ==
    /\ app = "oauth2"
    /\ LET r == oauth2_refresh_access_token(x, redis, _client, storeUp, now) IN
       /\ redis' = r.redis
       /\ _client' = r.client
       /\ tokens' = Keep(r.ret)
       /\ last' = [op |-> "refresh_access_token", tok |-> x, out |-> r.out,
                   ret |-> r.ret, up |-> storeUp, failed |-> r.failed]
    /\ UNCHANGED <<app, now, storeUp, JWT_REFRESH_ROTATE, JWT_REFRESH_BLACKLIST,
                   nextJti, cache, procs, room, blacklisted, refreshed,
                   loggedOut>>

OAuthLogout(u) ==
    /\ app = "oauth2"
    /\ LET r == oauth2_logout(u, redis, _client, storeUp) IN
       /\ redis' = r.redis
       /\ _client' = r.client
       /\ last' = [op |-> "logout", user |-> u, out |-> r.out, up |-> storeUp,
                   failed |-> r.out = "False"]
       /\ loggedOut' = IF r.out = "True" THEN loggedOut \cup {u} ELSE loggedOut
    /\ UNCHANGED <<app, now, storeUp, JWT_REFRESH_ROTATE, JWT_REFRESH_BLACKLIST, tokens,
                   nextJti, cache, procs, room, blacklisted, refreshed>>

---------------------------------------------------------------------------
(* The refresh handlers step by step: every store call is a step of its own, *)
(* so that other calls, the clock and the store's reachability interleave    *)

InFlight == BagToSet(procs)
Start(call) == procs (+) SetToBag({call})
Finish(call) == procs (-) SetToBag({call})

\* apps/user/utils.py refresh_access_token, line 167: verify_refresh_token
UserRefreshBegin(x) ==
    /\ app = "user"
    /\ BagCardinality(procs) < NumProcs
    /\ LET v == verify_refresh_token(x, cache, storeUp, JWT_REFRESH_BLACKLIST, now) IN
       IF v = OK
       THEN /\ procs' = Start([pc |-> "verified", tok |-> x,
                               again |-> x \in DOMAIN refreshed,
                               landed |-> Jti(x) \in blacklisted])
            /\ last' = NoCall
       ELSE /\ procs' = procs
            /\ last' = [op |-> "refresh_access_token", tok |-> x, out |-> v,
                        ret |-> << >>, up |-> storeUp,
                        failed |-> v = ConnectionInterrupted,
                        again |-> x \in DOMAIN refreshed,
                        revoked |-> Jti(x) \in blacklisted]
    /\ UNCHANGED <<app, now, storeUp, JWT_REFRESH_ROTATE, JWT_REFRESH_BLACKLIST, tokens,
                   nextJti, cache, redis, _client, room, blacklisted, refreshed,
                   loggedOut>>

\* apps/user/utils.py refresh_access_token, lines 168-195
UserRefreshEnd(call) ==
    /\ app = "user"
    /\ call \in InFlight
    /\ LET r == refresh_issue(call.tok, cache, storeUp, JWT_REFRESH_ROTATE,
                              JWT_REFRESH_BLACKLIST, now, nextJti) IN
       /\ cache' = r.cache
       /\ tokens' = Keep(r.ret)
       /\ nextJti' = NextId(r.ret)
       /\ last' = [op |-> "refresh_access_token", tok |-> call.tok, out |-> r.out,
                   ret |-> r.ret, up |-> storeUp,
                   failed |-> r.out = ConnectionInterrupted,
                   again |-> call.again, revoked |-> call.landed]
       /\ blacklisted' = IF r.cache # cache THEN blacklisted \cup {call.tok.jti}
                         ELSE blacklisted
       /\ refreshed' = IF r.out = OK THEN Bump(refreshed, call.tok) ELSE refreshed
    /\ procs' = Finish(call)
    /\ UNCHANGED <<app, now, storeUp, JWT_REFRESH_ROTATE, JWT_REFRESH_BLACKLIST,
                   redis, _client, room,
                   loggedOut>>

\* apps/oauth2/utils.py refresh_access_token, lines 141-150:
\* verify_refresh_token and the user row
OAuthRefreshBegin(x) ==
    /\ app = "oauth2"
    /\ BagCardinality(procs) < NumProcs
    /\ LET v == oauth2_verify_refresh_token(x, redis, _client, storeUp, now)
           found == v.out = OK /\ x.user_id \in CustomUser
       IN  /\ _client' = v.client
           /\ IF found
              THEN /\ procs' = Start([pc |-> "verified", tok |-> x, failed |-> FALSE])
                   /\ last' = NoCall
              ELSE /\ procs' = procs
                   /\ last' = [op |-> "refresh_access_token", tok |-> x,
                               out |-> IF v.out = OK THEN None ELSE v.out,
                               ret |-> << >>, up |-> storeUp,
                               failed |-> v.out = RedisConnectionError]
    /\ UNCHANGED <<app, now, storeUp, JWT_REFRESH_ROTATE, JWT_REFRESH_BLACKLIST, tokens,
                   nextJti, cache, redis, room, blacklisted, refreshed,
                   loggedOut>>

\* apps/oauth2/utils.py refresh_access_token, lines 152-158: the delete
OAuthRefreshDelete(call) ==
    /\ app = "oauth2"
    /\ call \in InFlight
    /\ call.pc = "verified"
    /\ LET d == oauth2_refresh_delete(call.tok, redis, _client, storeUp) IN
       /\ redis' = d.redis
       /\ _client' = d.client
       /\ procs' = Finish(call) (+) SetToBag({[call EXCEPT !.pc = "deleted",
                                                           !.failed = d.failed]})
    /\ last' = NoCall
    /\ UNCHANGED <<app, now, storeUp, JWT_REFRESH_ROTATE, JWT_REFRESH_BLACKLIST, tokens,
                   nextJti, cache, room, blacklisted, refreshed,
                   loggedOut>>

\* apps/oauth2/utils.py refresh_access_token, line 161: generate_jwt_tokens
OAuthRefreshGenerate(call) ==
    /\ app = "oauth2"
    /\ call \in InFlight
    /\ call.pc = "deleted"
    /\ LET g == oauth2_generate_jwt_tokens(call.tok.user_id, redis, _client, storeUp, now) IN
       /\ redis' = g.redis
       /\ _client' = g.client
       /\ tokens' = Keep(g.ret)
       /\ last' = [op |-> "refresh_access_token", tok |-> call.tok, out |-> g.out,
                   ret |-> g.ret, up |-> storeUp, failed |-> call.failed \/ g.failed]
    /\ procs' = Finish(call)
    /\ UNCHANGED <<app, now, storeUp, JWT_REFRESH_ROTATE, JWT_REFRESH_BLACKLIST,
                   nextJti, cache, room, blacklisted, refreshed,
                   loggedOut>>

---------------------------------------------------------------------------
(* The environment *)

\* the clock advances; the store drops the records whose TTL has run out
Tick ==
    /\ now < MaxNow
    /\ now' = now + 1
    /\ cache' = [k \in {j \in DOMAIN cache : cache[j] > now + 1} |-> cache[k]]
    /\ redis' = [k \in {j \in DOMAIN redis : redis[j].expireAt > now + 1} |-> redis[k]]
    /\ last' = NoCall
    /\ UNCHANGED <<app, storeUp, JWT_REFRESH_ROTATE, JWT_REFRESH_BLACKLIST, tokens,
                   nextJti, _client, procs, room, blacklisted, refreshed,
                   loggedOut>>

\* the Redis server becomes unreachable, or reachable again
StoreFlip ==
    /\ storeUp' = ~storeUp
    /\ last' = NoCall
    /\ UNCHANGED <<app, now, JWT_REFRESH_ROTATE, JWT_REFRESH_BLACKLIST, tokens,
                   nextJti, cache, redis, _client, procs, room, blacklisted, refreshed,
                   loggedOut>>

---------------------------------------------------------------------------

Init ==
    /\ app \in {"user", "oauth2"}
    /\ now = TicksPerSec
    /\ storeUp = TRUE
    /\ JWT_REFRESH_ROTATE = TRUE
    /\ JWT_REFRESH_BLACKLIST = TRUE
    /\ tokens = {}
    /\ nextJti = 1
    /\ cache = << >>
    /\ redis = << >>
    /\ _client = "None"
    /\ procs = << >>
    /\ room = [tokens |-> MaxTokens, wires |-> {"badsig"}]
    /\ last = NoCall
    /\ blacklisted = {}
    /\ refreshed = << >>
    /\ loggedOut = {}

Next ==
    \/ \E u \in Users : UserLogin(u)
    \/ \E x \in Presentable : UserVerifyRefresh(x)
    \/ \E x \in Presentable : UserVerifyAccess(x)
    \/ \E x \in Presentable : UserRefresh(x)
    \/ \E x \in Presentable : UserLogout(x)
    \/ \E u \in Users : OAuthLogin(u)
    \/ \E x \in Presentable : OAuthVerifyRefresh(x)
    \/ \E x \in Presentable : OAuthVerifyAccess(x)
    \/ \E x \in Presentable : OAuthRefresh(x)
    \/ \E u \in Users : OAuthLogout(u)
    \/ Tick
    \/ StoreFlip

Spec == Init /\ [][Next]_vars

\* the state after start-up, with room for the token strings of one login
InitConc ==
    /\ app \in {"user", "oauth2"}
    /\ now = TicksPerSec
    /\ storeUp = TRUE
    /\ JWT_REFRESH_ROTATE = TRUE
    /\ JWT_REFRESH_BLACKLIST = TRUE
    /\ tokens = {}
    /\ nextJti = 1
    /\ cache = << >>
    /\ redis = << >>
    /\ _client = "None"
    /\ procs = << >>
    /\ room = [tokens |-> MaxTokensConc, wires |-> {"badsig"}]
    /\ last = NoCall
    /\ blacklisted = {}
    /\ refreshed = << >>
    /\ loggedOut = {}

\* both modules with the refresh handlers running step by step, any number of
\* them (up to NumProcs) in flight at once
NextConc ==
    \/ \E u \in Users : UserLogin(u)
    \/ \E x \in Presentable : UserVerifyRefresh(x)
    \/ \E x \in Presentable : UserRefreshBegin(x)
    \/ \E call \in InFlight : UserRefreshEnd(call)
    \/ \E x \in Presentable : UserLogout(x)
    \/ \E u \in Users : OAuthLogin(u)
    \/ \E x \in Presentable : OAuthVerifyRefresh(x)
    \/ \E x \in Presentable : OAuthRefreshBegin(x)
    \/ \E call \in InFlight : OAuthRefreshDelete(call)
    \/ \E call \in InFlight : OAuthRefreshGenerate(call)
    \/ \E u \in Users : OAuthLogout(u)
    \/ Tick
    \/ StoreFlip

SpecConc == InitConc /\ [][NextConc]_vars

\* apps/user/utils.py under each of the four values of its two settings
\* JWT_REFRESH_ROTATE and JWT_REFRESH_BLACKLIST (read once, at import)
InitCfg ==
    /\ app = "user"
    /\ now = TicksPerSec
    /\ storeUp = TRUE
    /\ JWT_REFRESH_ROTATE \in BOOLEAN
    /\ JWT_REFRESH_BLACKLIST \in BOOLEAN
    /\ tokens = {}
    /\ nextJti = 1
    /\ cache = << >>
    /\ redis = << >>
    /\ _client = "None"
    /\ procs = << >>
    /\ room = [tokens |-> MaxTokensCfg, wires |-> {"badsig"}]
    /\ last = NoCall
    /\ blacklisted = {}
    /\ refreshed = << >>
    /\ loggedOut = {}

NextCfg ==
    \/ \E u \in Users : UserLogin(u)
    \/ \E x \in Presentable : UserVerifyRefresh(x)
    \/ \E x \in Presentable : UserVerifyAccess(x)
    \/ \E x \in Presentable : UserRefresh(x)
    \/ \E x \in Presentable : UserLogout(x)
    \/ Tick
    \/ StoreFlip

SpecCfg == InitCfg /\ [][NextCfg]_vars

\* apps/user/utils.py with _make_jwt also called directly, with the TTLs a
\* test gives it: -1 and 0 (expired from the start) and the refresh TTL
TestTtls == {-1, 0, JWT_REFRESH_TTL}

InitEncode ==
    /\ app = "user"
    /\ now = TicksPerSec
    /\ storeUp = TRUE
    /\ JWT_REFRESH_ROTATE = TRUE
    /\ JWT_REFRESH_BLACKLIST = TRUE
    /\ tokens = {}
    /\ nextJti = 1
    /\ cache = << >>
    /\ redis = << >>
    /\ _client = "None"
    /\ procs = << >>
    /\ room = [tokens |-> MaxTokensEncode, wires |-> {"badsig"}]
    /\ last = NoCall
    /\ blacklisted = {}
    /\ refreshed = << >>
    /\ loggedOut = {}

NextEncode ==
    \/ \E ttl \in TestTtls : UserMakeJwt("refresh", 1, ttl)
    \/ \E x \in Presentable : UserVerifyRefresh(x)
    \/ \E x \in Presentable : UserVerifyAccess(x)
    \/ \E x \in Presentable : UserRefresh(x)
    \/ \E x \in Presentable : UserLogout(x)
    \/ Tick
    \/ StoreFlip

SpecEncode == InitEncode /\ [][NextEncode]_vars

\* both modules, the callers presenting each token also with its last
\* signature character changed in the bits base64url decoding drops
InitTamper ==
    /\ app \in {"user", "oauth2"}
    /\ now = TicksPerSec
    /\ storeUp = TRUE
    /\ JWT_REFRESH_ROTATE = TRUE
    /\ JWT_REFRESH_BLACKLIST = TRUE
    /\ tokens = {}
    /\ nextJti = 1
    /\ cache = << >>
    /\ redis = << >>
    /\ _client = "None"
    /\ procs = << >>
    /\ room = [tokens |-> MaxTokensTamper, wires |-> {"badsig", "padbits"}]
    /\ last = NoCall
    /\ blacklisted = {}
    /\ refreshed = << >>
    /\ loggedOut = {}

SpecTamper == InitTamper /\ [][Next]_vars

---------------------------------------------------------------------------
(* apps/user/v1/views.py and apps/oauth2/v1/views.py: the refresh and logout *)
(* endpoints, for a request whose body carries a non-empty refresh_token.    *)
(* A response is [status, raised, body]; an exception that leaves post() is  *)
(* answered by Django with status 500 and is named in raised.                *)

HTTP_200_OK == 200
HTTP_401_UNAUTHORIZED == 401
HTTP_500_INTERNAL_SERVER_ERROR == 500

\* dict.get(key): the value, or None for a key the dict does not have
DictGet(d, key) == IF key \in DOMAIN d THEN d[key] ELSE Nil

\* the entries of a response body that are token strings
BodyTokens(body) == [k \in {f \in DOMAIN body : body[f] # Nil} |-> body[k]]

\* apps/user/v1/views.py RefreshView.post: [status, raised, body, cache, verified]
user_RefreshView_post(x, c, up, rot, bl, t, j) ==
    LET v == verify_refresh_token(x, c, up, bl, t)
        r == refresh_access_token(x, c, up, rot, bl, t, j)
    IN  IF v # OK
        THEN [status |-> HTTP_500_INTERNAL_SERVER_ERROR, raised |-> v, body |-> << >>,
              cache |-> c, verified |-> FALSE]
        ELSE IF r.out # OK
        THEN [status |-> HTTP_500_INTERNAL_SERVER_ERROR, raised |-> r.out, body |-> << >>,
              cache |-> r.cache, verified |-> TRUE]
        ELSE [status |-> HTTP_200_OK, raised |-> None,
              body |-> [access_token |-> DictGet(r.ret, "access_token"),
                        refresh_token |-> DictGet(r.ret, "refresh_token")],
              cache |-> r.cache, verified |-> TRUE]

\* apps/user/v1/views.py LogoutView.post: [status, raised, body, cache, verified]
user_LogoutView_post(x, c, up, bl, t) ==
    LET v == verify_refresh_token(x, c, up, bl, t)
        l == logout(x, c, up, bl, t)
    IN  IF v # OK
        THEN [status |-> HTTP_500_INTERNAL_SERVER_ERROR, raised |-> v, body |-> << >>,
              cache |-> c, verified |-> FALSE]
        ELSE IF l.out # None
        THEN [status |-> HTTP_500_INTERNAL_SERVER_ERROR, raised |-> l.out, body |-> << >>,
              cache |-> l.cache, verified |-> TRUE]
        ELSE [status |-> HTTP_200_OK, raised |-> None, body |-> << >>,
              cache |-> l.cache, verified |-> TRUE]

\* apps/oauth2/v1/views.py RefreshTokenView.post:
\* [status, raised, body, redis, client, verified]
oauth2_RefreshTokenView_post(x, r, cl, up, t) ==
    LET g == oauth2_refresh_access_token(x, r, cl, up, t) IN
    IF g.out = RedisConnectionError
    THEN [status |-> HTTP_500_INTERNAL_SERVER_ERROR, raised |-> g.out, body |-> << >>,
          redis |-> g.redis, client |-> g.client, verified |-> FALSE]
    ELSE IF g.out = None
    THEN [status |-> HTTP_401_UNAUTHORIZED, raised |-> None, body |-> << >>,
          redis |-> g.redis, client |-> g.client, verified |-> FALSE]
    ELSE [status |-> HTTP_200_OK, raised |-> None,
          body |-> [access_token |-> g.ret["access_token"],
                    refresh_token |-> g.ret["refresh_token"]],
          redis |-> g.redis, client |-> g.client, verified |-> TRUE]

\* apps/oauth2/v1/views.py LogoutView.post:
\* [status, raised, body, redis, client, verified, done]; done says that
\* logout(user_id) was reached and returned True
oauth2_LogoutView_post(x, r, cl, up, t) ==
    LET v == oauth2_verify_refresh_token(x, r, cl, up, t) IN
    IF v.out = RedisConnectionError
    THEN [status |-> HTTP_500_INTERNAL_SERVER_ERROR, raised |-> v.out, body |-> << >>,
          redis |-> r, client |-> v.client, verified |-> FALSE,
          done |-> FALSE]
    ELSE IF v.out = None
    THEN [status |-> HTTP_401_UNAUTHORIZED, raised |-> None, body |-> << >>,
          redis |-> r, client |-> v.client, verified |-> FALSE,
          done |-> FALSE]
    ELSE LET l == oauth2_logout(x.user_id, r, v.client, up) IN
         [status |-> HTTP_200_OK, raised |-> None, body |-> << >>,
          redis |-> l.redis, client |-> l.client, verified |-> TRUE,
          done |-> l.out = "True"]

UserRefreshView(x) ==
    /\ app = "user"
    /\ LET resp == user_RefreshView_post(x, cache, storeUp, JWT_REFRESH_ROTATE,
                                         JWT_REFRESH_BLACKLIST, now, nextJti) IN
       /\ cache' = resp.cache
       /\ tokens' = Keep(BodyTokens(resp.body))
       /\ nextJti' = NextId(BodyTokens(resp.body))
       /\ last' = [op |-> "RefreshView.post", tok |-> x, status |-> resp.status,
                   raised |-> resp.raised, body |-> resp.body,
                   verified |-> resp.verified, up |-> storeUp]
       /\ blacklisted' = IF resp.cache # cache THEN blacklisted \cup {x.jti}
                         ELSE blacklisted
       /\ refreshed' = IF resp.status = HTTP_200_OK THEN Bump(refreshed, x) ELSE refreshed
    /\ UNCHANGED <<app, now, storeUp, JWT_REFRESH_ROTATE, JWT_REFRESH_BLACKLIST,
                   redis, _client, procs, room,
                   loggedOut>>

UserLogoutView(x) ==
    /\ app = "user"
    /\ LET resp == user_LogoutView_post(x, cache, storeUp, JWT_REFRESH_BLACKLIST, now) IN
       /\ cache' = resp.cache
       /\ last' = [op |-> "LogoutView.post", tok |-> x, status |-> resp.status,
                   raised |-> resp.raised, body |-> resp.body,
                   verified |-> resp.verified, up |-> storeUp]
       /\ blacklisted' = IF resp.cache # cache THEN blacklisted \cup {x.jti}
                         ELSE blacklisted
    /\ UNCHANGED <<app, now, storeUp, JWT_REFRESH_ROTATE, JWT_REFRESH_BLACKLIST, tokens,
                   nextJti, redis, _client, procs, room, refreshed,
                   loggedOut>>

OAuthRefreshView(x) ==
    /\ app = "oauth2"
    /\ LET resp == oauth2_RefreshTokenView_post(x, redis, _client, storeUp, now) IN
       /\ redis' = resp.redis
       /\ _client' = resp.client
       /\ tokens' = Keep(BodyTokens(resp.body))
       /\ last' = [op |-> "RefreshView.post", tok |-> x, status |-> resp.status,
                   raised |-> resp.raised, body |-> resp.body,
                   verified |-> resp.verified, up |-> storeUp]
    /\ UNCHANGED <<app, now, storeUp, JWT_REFRESH_ROTATE, JWT_REFRESH_BLACKLIST,
                   nextJti, cache, procs, room, blacklisted, refreshed,
                   loggedOut>>

OAuthLogoutView(x) ==
    /\ app = "oauth2"
    /\ LET resp == oauth2_LogoutView_post(x, redis, _client, storeUp, now) IN
       /\ redis' = resp.redis
       /\ _client' = resp.client
       /\ last' = [op |-> "LogoutView.post", tok |-> x, status |-> resp.status,
                   raised |-> resp.raised, body |-> resp.body,
                   verified |-> resp.verified, up |-> storeUp]
       /\ loggedOut' = IF resp.done THEN loggedOut \cup {x.user_id} ELSE loggedOut
    /\ UNCHANGED <<app, now, storeUp, JWT_REFRESH_ROTATE, JWT_REFRESH_BLACKLIST, tokens,
                   nextJti, cache, procs, room, blacklisted, refreshed>>

\* both modules reached through their refresh and logout endpoints; the token
\* pairs come from generate_jwt_tokens
InitView ==
    /\ app \in {"user", "oauth2"}
    /\ now = TicksPerSec
    /\ storeUp = TRUE
    /\ JWT_REFRESH_ROTATE = TRUE
    /\ JWT_REFRESH_BLACKLIST = TRUE
    /\ tokens = {}
    /\ nextJti = 1
    /\ cache = << >>
    /\ redis = << >>
    /\ _client = "None"
    /\ procs = << >>
    /\ room = [tokens |-> MaxTokensView, wires |-> {"badsig"}]
    /\ last = NoCall
    /\ blacklisted = {}
    /\ refreshed = << >>
    /\ loggedOut = {}

NextView ==
    \/ \E u \in Users : UserLogin(u)
    \/ \E x \in Presentable : UserRefreshView(x)
    \/ \E x \in Presentable : UserLogoutView(x)
    \/ \E u \in Users : OAuthLogin(u)
    \/ \E x \in Presentable : OAuthRefreshView(x)
    \/ \E x \in Presentable : OAuthLogoutView(x)
    \/ Tick
    \/ StoreFlip

SpecView == InitView /\ [][NextView]_vars

---------------------------------------------------------------------------
(* Properties *)

\* the token's exp lies in the future at tick t
Unexpired(x, t) == x.exp * TicksPerSec > t

\* x is the unaltered string of a token of type typ
Genuine(x, typ) == x.wire = "ok" /\ x.typ = typ

\* C1: apps/user/utils.py with rotation and blacklist on, the store reachable
\* and calls made one after another: the first refresh_access_token with an
\* issued, unexpired, never logged-out refresh token succeeds and returns a
\* new access/refresh pair; every later refresh_access_token with that same
\* token before its expiry raises the blacklisted error and returns nothing.
C1_RotationSingleUse ==
    (/\ app = "user"
     /\ last.op = "refresh_access_token"
     /\ JWT_REFRESH_ROTATE /\ JWT_REFRESH_BLACKLIST /\ last.up
     /\ Genuine(last.tok, "refresh")
     /\ Unexpired(last.tok, now))
    => /\ (~last.again /\ ~last.revoked)
            => /\ last.out = OK
               /\ DOMAIN last.ret = {"access", "refresh"}
               /\ last.ret.refresh # last.tok
               /\ Genuine(last.ret.refresh, "refresh")
       /\ last.again => (last.out = Blacklisted /\ last.ret = << >>)

\* a replay of an already rotated, still unexpired refresh token was rejected
C1_Witness ==
    /\ app = "user"
    /\ last.op = "refresh_access_token"
    /\ last.up
    /\ Genuine(last.tok, "refresh")
    /\ Unexpired(last.tok, now)
    /\ last.again
    /\ last.out = Blacklisted

\* C2: apps/user/utils.py (blacklist on, as shipped): once logout(r) has
\* returned for a valid, unexpired refresh token r, verify_refresh_token(r)
\* raises the blacklisted error and refresh_access_token(r) issues nothing.
C2_LogoutFinality ==
    (/\ app = "user"
     /\ last.op = "logout"
     /\ last.out = None
     /\ JWT_REFRESH_BLACKLIST
     /\ Genuine(last.tok, "refresh")
     /\ Unexpired(last.tok, now))
    => /\ verify_refresh_token(last.tok, cache, storeUp, JWT_REFRESH_BLACKLIST, now)
            = Blacklisted
       /\ refresh_access_token(last.tok, cache, storeUp, JWT_REFRESH_ROTATE,
                               JWT_REFRESH_BLACKLIST, now, nextJti).ret = << >>

\* logout has just returned for a valid, unexpired refresh token
C2_Witness ==
    /\ app = "user"
    /\ last.op = "logout"
    /\ last.out = None
    /\ Genuine(last.tok, "refresh")
    /\ Unexpired(last.tok, now)
    /\ _is_refresh_blacklisted(cache, last.tok.jti, now)

\* C3: apps/user/utils.py: a refresh token whose id a rotation or a logout has
\* blacklisted is never accepted again, at any later clock value and whatever
\* is issued, refreshed or logged out afterwards: while it is unexpired its
\* record is in the store, so that verify_refresh_token rejects it as
\* blacklisted or as expired (and never returns its payload, store reachable
\* or not).
C3_RevocationTerminal ==
    app = "user" =>
        /\ \A x \in tokens :
              (x.typ = "refresh" /\ x.jti \in blacklisted) =>
                 /\ Unexpired(x, now) => _is_refresh_blacklisted(cache, x.jti, now)
                 /\ verify_refresh_token(x, cache, TRUE, JWT_REFRESH_BLACKLIST, now)
                        \in {Blacklisted, ExpiredSignatureError}
                 /\ verify_refresh_token(x, cache, storeUp, JWT_REFRESH_BLACKLIST, now) # OK
        /\ (last.op = "verify_refresh_token" /\ Jti(last.tok) \in blacklisted
              /\ last.tok.wire = "ok") => last.out # OK
        /\ (last.op = "refresh_access_token" /\ last.revoked /\ last.tok.wire = "ok")
              => (last.out # OK /\ last.ret = << >>)

\* a token blacklisted at least a second ago, still unexpired, was presented
\* to verify_refresh_token and rejected
C3_Witness ==
    /\ app = "user"
    /\ last.op = "verify_refresh_token"
    /\ Genuine(last.tok, "refresh")
    /\ last.tok.jti \in blacklisted
    /\ Unexpired(last.tok, now)
    /\ now >= (last.tok.iat + 1) * TicksPerSec
    /\ \E y \in tokens : y.typ = "refresh" /\ y.jti > last.tok.jti
    /\ last.out = Blacklisted

\* C5: with the store unreachable, verify_refresh_token on a correctly signed,
\* unexpired refresh token never returns the payload: it raises the store's
\* connection error, in apps/user/utils.py (blacklist on, as shipped) and in
\* apps/oauth2/utils.py.
C5_StoreDownFailsClosed ==
    (/\ last.op = "verify_refresh_token"
     /\ ~last.up
     /\ Genuine(last.tok, "refresh")
     /\ Unexpired(last.tok, now)
     /\ app = "user" => JWT_REFRESH_BLACKLIST)
    => last.out = (IF app = "user" THEN ConnectionInterrupted ELSE RedisConnectionError)

\* verify_refresh_token was called on a valid refresh token, store unreachable
C5_Witness ==
    /\ last.op = "verify_refresh_token"
    /\ ~last.up
    /\ Genuine(last.tok, "refresh")
    /\ Unexpired(last.tok, now)
    /\ app = "user"
    /\ last.tok.jti \notin blacklisted
    /\ last.out = ConnectionInterrupted

\* C7 (as claimed): a store failure during logout never leaves logout as an
\* exception, in apps/user/utils.py and in apps/oauth2/utils.py.
C7_LogoutNeverRaises ==
    (last.op = "logout" /\ last.failed) => last.out \notin Raises

\* the tokens on which logout writes nothing
InvalidForLogout(x, t) ==
    ~SignatureMatches(x) \/ ~Unexpired(x, t) \/ x.typ = "access"

\* C8: apps/user/utils.py: logout on a malformed, wrongly signed or expired
\* token, or on a valid access token, returns None without raising and leaves
\* the store exactly as it was.
C8_LogoutInvalidIsNoop ==
    [][\A x \in Presentable :
          (UserLogout(x) /\ InvalidForLogout(x, now))
              => (cache' = cache /\ last'.out = None)]_vars

\* logout has returned None for an expired refresh token, the store being down
C8_Witness ==
    /\ app = "user"
    /\ last.op = "logout"
    /\ Genuine(last.tok, "refresh")
    /\ ~Unexpired(last.tok, now)
    /\ ~last.up
    /\ last.out = None

\* C10 (as claimed): a validly signed, unexpired token of the wrong type is
\* rejected by verify_refresh_token, refresh_access_token and
\* verify_access_token, and the rejection is the wrong-token-type outcome, an
\* outcome of its own.
C10_WrongTokenTypeOutcome ==
    (/\ last.op \in {"verify_refresh_token", "refresh_access_token", "verify_access_token"}
     /\ last.tok.wire = "ok"
     /\ Unexpired(last.tok, now)
     /\ last.tok.typ = (IF last.op = "verify_access_token" THEN "refresh" ELSE "access"))
    => last.out = NotRefresh

\* C10 (amended): type confusion is rejected in both directions and in both
\* modules, but only verify_refresh_token and refresh_access_token of
\* apps/user/utils.py report it as an outcome of its own (InvalidTokenError
\* "Not a refresh token."); verify_access_token of both modules and
\* verify_refresh_token and refresh_access_token of apps/oauth2/utils.py
\* return None, as they do for any other invalid token.
C10_TypeConfusion ==
    /\ (/\ last.op \in {"verify_refresh_token", "refresh_access_token"}
        /\ Genuine(last.tok, "access")
        /\ Unexpired(last.tok, now))
       => /\ last.out = (IF app = "user" THEN NotRefresh ELSE None)
          /\ last.op = "refresh_access_token" => last.ret = << >>
    /\ (/\ last.op = "verify_access_token"
        /\ Genuine(last.tok, "refresh")
        /\ Unexpired(last.tok, now))
       => last.out = None

\* an unexpired, validly signed refresh token was given to verify_access_token
C10_Witness ==
    /\ last.op = "verify_access_token"
    /\ Genuine(last.tok, "refresh")
    /\ Unexpired(last.tok, now)
    /\ last.out = None

\* C9: apps/user/utils.py: a refresh token whose exp is not in the future
\* (made with ttl_seconds = -1 or 0, or outlived) is never accepted:
\* verify_refresh_token and refresh_access_token raise ExpiredSignatureError
\* for it at every clock value from its expiry on, blacklisted or not, store
\* reachable or not.
C9_ExpiredNeverAccepted ==
    app = "user" =>
        /\ \A x \in tokens :
              (x.typ = "refresh" /\ ~Unexpired(x, now)) =>
                 /\ verify_refresh_token(x, cache, storeUp, JWT_REFRESH_BLACKLIST, now)
                        = ExpiredSignatureError
                 /\ refresh_access_token(x, cache, storeUp, JWT_REFRESH_ROTATE,
                                         JWT_REFRESH_BLACKLIST, now, nextJti)
                        = [out |-> ExpiredSignatureError, cache |-> cache, ret |-> << >>]
        /\ (/\ last.op \in {"verify_refresh_token", "refresh_access_token"}
            /\ Genuine(last.tok, "refresh")
            /\ ~Unexpired(last.tok, now))
           => last.out = ExpiredSignatureError

\* a refresh token made with ttl_seconds = -1 was presented at the very tick
\* it was made and rejected as expired
C9_Witness ==
    /\ app = "user"
    /\ last.op = "refresh_access_token"
    /\ Genuine(last.tok, "refresh")
    /\ last.tok.exp < last.tok.iat
    /\ IntTime(now) = last.tok.iat
    /\ last.out = ExpiredSignatureError

\* C4 (as claimed): when refresh_access_token calls race on one refresh
\* token, at most two of them succeed, and every call that starts after some
\* call's blacklist write has landed fails.
C4_AtMostTwoSucceed ==
    app = "user" =>
        /\ \A x \in DOMAIN refreshed : refreshed[x] <= 2
        /\ \A call \in InFlight : ~call.landed
        /\ (last.op = "refresh_access_token" /\ last.revoked /\ last.tok.wire = "ok")
              => last.out # OK

\* C4 (amended): every racing call whose blacklist read comes before the first
\* blacklist write can succeed (the number of pairs issued from one token is
\* bounded by the number of such calls only), and every call that starts
\* after some call's blacklist write has landed fails: it does not get past
\* verify_refresh_token, which raises the blacklisted error while the store is
\* reachable and the token unexpired.
C4_FailsOnceWriteLanded ==
    app = "user" =>
        /\ \A call \in InFlight : ~call.landed
        /\ (last.op = "refresh_access_token" /\ last.revoked /\ last.tok.wire = "ok")
              => /\ last.out # OK
                 /\ last.ret = << >>
                 /\ (last.up /\ Unexpired(last.tok, now)) => last.out = Blacklisted

\* two racing calls on one token have both succeeded, and a call started
\* after their writes landed has been rejected
C4_Witness ==
    /\ app = "user"
    /\ last.op = "refresh_access_token"
    /\ last.revoked
    /\ Genuine(last.tok, "refresh")
    /\ Count(refreshed, last.tok) >= 2
    /\ last.out = Blacklisted

\* C6 (as claimed): a refresh_access_token call during which a store call
\* failed returns no token pair, in apps/user/utils.py and in
\* apps/oauth2/utils.py.
C6_RefreshFailsClosed ==
    (last.op = "refresh_access_token" /\ last.failed)
        => (last.out # OK /\ last.ret = << >>)

\* a validly issued token with one character of its signature segment changed
OneSigCharChanged(x) == x.wire \in {"badsig", "padbits"}

\* C11 (as claimed): a validly issued token with one signature character
\* changed is never accepted by verify_access_token, verify_refresh_token or
\* refresh_access_token, the failure being the invalid-signature error, and
\* logout on it writes nothing.
C11_OneCharChangedRejected ==
    /\ (/\ last.op \in {"verify_access_token", "verify_refresh_token", "refresh_access_token"}
        /\ OneSigCharChanged(last.tok))
       => last.out = InvalidSignatureError
    /\ \A x \in Presentable :
          (app = "user" /\ OneSigCharChanged(x))
             => logout(x, cache, storeUp, JWT_REFRESH_BLACKLIST, now).cache = cache

\* C11 (amended): a token whose signature bytes do not match the secret is
\* never accepted, in any state, store reachable or not: in apps/user/utils.py
\* verify_refresh_token and refresh_access_token raise InvalidSignatureError
\* and verify_access_token returns None; in apps/oauth2/utils.py all three
\* return None; refresh_access_token issues nothing and logout(token) writes
\* nothing.  (One changed signature character gives such a token unless only
\* the unused trailing bits of the last character change.)
C11_BadSignatureRejected ==
    /\ \A x \in Presentable :
          (app = "user" /\ x.wire = "badsig") =>
             /\ verify_access_token(x, now) = None
             /\ verify_refresh_token(x, cache, storeUp, JWT_REFRESH_BLACKLIST, now)
                   = InvalidSignatureError
             /\ refresh_access_token(x, cache, storeUp, JWT_REFRESH_ROTATE,
                                     JWT_REFRESH_BLACKLIST, now, nextJti)
                   = [out |-> InvalidSignatureError, cache |-> cache, ret |-> << >>]
             /\ logout(x, cache, storeUp, JWT_REFRESH_BLACKLIST, now)
                   = [out |-> None, cache |-> cache]
    /\ \A x \in Presentable :
          (app = "oauth2" /\ x.wire = "badsig") =>
             /\ oauth2_verify_access_token(x, now) = None
             /\ oauth2_verify_refresh_token(x, redis, _client, storeUp, now).out = None
             /\ LET r == oauth2_refresh_access_token(x, redis, _client, storeUp, now)
                IN  r.out = None /\ r.ret = << >> /\ r.redis = redis
    /\ \A x \in Presentable :
          (app = "user" /\ x.wire = "padbits") =>
             LET issued == [x EXCEPT !.wire = "ok"]
             IN  /\ verify_access_token(x, now) = verify_access_token(issued, now)
                 /\ verify_refresh_token(x, cache, storeUp, JWT_REFRESH_BLACKLIST, now)
                       = verify_refresh_token(issued, cache, storeUp,
                                              JWT_REFRESH_BLACKLIST, now)
                 /\ refresh_access_token(x, cache, storeUp, JWT_REFRESH_ROTATE,
                                         JWT_REFRESH_BLACKLIST, now, nextJti)
                       = refresh_access_token(issued, cache, storeUp, JWT_REFRESH_ROTATE,
                                              JWT_REFRESH_BLACKLIST, now, nextJti)
                 /\ logout(x, cache, storeUp, JWT_REFRESH_BLACKLIST, now)
                       = logout(issued, cache, storeUp, JWT_REFRESH_BLACKLIST, now)
    /\ (/\ last.op \in {"verify_access_token", "verify_refresh_token", "refresh_access_token"}
        /\ last.tok.wire = "badsig")
       => /\ last.out = (IF app = "user" /\ last.op # "verify_access_token"
                         THEN InvalidSignatureError ELSE None)
          /\ last.op = "refresh_access_token" => last.ret = << >>

\* an unexpired refresh token with a changed signature was presented to
\* refresh_access_token and refused
C11_Witness ==
    /\ app = "user"
    /\ last.op = "refresh_access_token"
    /\ last.tok.wire = "badsig"
    /\ last.tok.typ = "refresh"
    /\ Unexpired(last.tok, now)
    /\ last.tok.jti \notin blacklisted
    /\ last.out = InvalidSignatureError

\* C12: apps/user/utils.py: the access token generate_jwt_tokens returns for
\* a user is accepted by verify_access_token from its issuance to its expiry,
\* whatever happens in between; the payload returned is the token's claim set,
\* whose sub is str(user.id) and whose type is "access".
C12_IssuedAccessAccepted ==
    app = "user" =>
        /\ last.op = "generate_jwt_tokens" =>
              /\ last.ret.access.sub = str(last.user)
              /\ last.ret.access.typ = "access"
              /\ verify_access_token(last.ret.access, now) = OK
        /\ \A x \in tokens :
              (x.typ = "access" /\ Unexpired(x, now)) =>
                 /\ verify_access_token(x, now) = OK
                 /\ \E u \in Users : x.sub = str(u)
        /\ (last.op = "verify_access_token" /\ Genuine(last.tok, "access")
              /\ Unexpired(last.tok, now)) => last.out = OK

\* an access token was accepted in the last tick before its expiry, the store
\* being down
C12_Witness ==
    /\ app = "user"
    /\ last.op = "verify_access_token"
    /\ Genuine(last.tok, "access")
    /\ now + 1 = last.tok.exp * TicksPerSec
    /\ now > last.tok.iat * TicksPerSec
    /\ ~last.up
    /\ last.out = OK

\* C13 (as claimed): apps/user/utils.py: whatever was issued, refreshed or
\* logged out before, the refresh token generate_jwt_tokens has just returned
\* is accepted by verify_refresh_token.
C13_FreshRefreshAccepted ==
    (app = "user" /\ last.op = "generate_jwt_tokens") =>
        verify_refresh_token(last.ret.refresh, cache, storeUp, JWT_REFRESH_BLACKLIST, now)
            = OK

\* C13 (amended): the refresh token generate_jwt_tokens has just returned is
\* never born revoked: no blacklist record bears its id, whatever was issued,
\* refreshed or logged out before, and verify_refresh_token accepts it if the
\* store is reachable (if it is not, verify_refresh_token raises the store's
\* connection error).
C13_NeverBornRevoked ==
    (app = "user" /\ last.op = "generate_jwt_tokens") =>
        LET r == last.ret.refresh
            v == verify_refresh_token(r, cache, storeUp, JWT_REFRESH_BLACKLIST, now)
        IN  /\ r.jti \notin blacklisted
            /\ ~_is_refresh_blacklisted(cache, r.jti, now)
            /\ storeUp => v = OK
            /\ ~storeUp => v = ConnectionInterrupted

\* a user one of whose refresh tokens is blacklisted has logged in again
C13_Witness ==
    /\ app = "user"
    /\ last.op = "generate_jwt_tokens"
    /\ storeUp
    /\ \E x \in tokens :
          /\ x.typ = "refresh" /\ x.sub = last.ret.refresh.sub
          /\ _is_refresh_blacklisted(cache, x.jti, now)
    /\ last.ret.refresh \in tokens
    /\ verify_refresh_token(last.ret.refresh, cache, storeUp, JWT_REFRESH_BLACKLIST, now) = OK

C15_RotationOffReturnsSame ==
    ~JWT_REFRESH_ROTATE =>
        /\ (last.op = "refresh_access_token" /\ last.out = OK)
              => (DOMAIN last.ret = {"access", "refresh"} /\ last.ret.refresh = last.tok)
        /\ \A x \in Presentable :
              refresh_access_token(x, cache, storeUp, JWT_REFRESH_ROTATE,
                                   JWT_REFRESH_BLACKLIST, now, nextJti).cache = cache
        /\ \A x \in DOMAIN refreshed :
              Unexpired(x, now) =>
                 refresh_access_token(x, cache, storeUp, JWT_REFRESH_ROTATE,
                                      JWT_REFRESH_BLACKLIST, now, nextJti).out = OK

\* C15 (amended): with JWT_REFRESH_ROTATE off a successful
\* refresh_access_token(r) returns the new access token only (the dict has no
\* "refresh" entry), with r's subject; no refresh_access_token call writes a
\* blacklist record; and r, once used, is accepted by every later
\* refresh_access_token until it expires, unless logout(r) has blacklisted it
\* or (JWT_REFRESH_BLACKLIST on) the store is unreachable.
C15_RotationOffKeepsToken ==
    ~JWT_REFRESH_ROTATE =>
        /\ (last.op = "refresh_access_token" /\ last.out = OK)
              => /\ DOMAIN last.ret = {"access"}
                 /\ last.ret.access.typ = "access"
                 /\ last.ret.access.sub = last.tok.sub
        /\ \A x \in Presentable :
              refresh_access_token(x, cache, storeUp, JWT_REFRESH_ROTATE,
                                   JWT_REFRESH_BLACKLIST, now, nextJti).cache = cache
        /\ \A x \in DOMAIN refreshed :
              (/\ Unexpired(x, now)
               /\ x.jti \notin blacklisted
               /\ JWT_REFRESH_BLACKLIST => storeUp)
              => refresh_access_token(x, cache, storeUp, JWT_REFRESH_ROTATE,
                                      JWT_REFRESH_BLACKLIST, now, nextJti).out = OK
        /\ \A x \in DOMAIN refreshed :
              (/\ Unexpired(x, now) /\ JWT_REFRESH_BLACKLIST /\ storeUp
               /\ x.jti \in blacklisted)
              => refresh_access_token(x, cache, storeUp, JWT_REFRESH_ROTATE,
                                      JWT_REFRESH_BLACKLIST, now, nextJti).out = Blacklisted

\* with rotation off and blacklist on, one refresh token has been used for a
\* third successful refresh, in a later second than the first
C15_Witness ==
    /\ ~JWT_REFRESH_ROTATE /\ JWT_REFRESH_BLACKLIST
    /\ last.op = "refresh_access_token"
    /\ last.out = OK
    /\ Genuine(last.tok, "refresh")
    /\ Count(refreshed, last.tok) >= 3
    /\ now >= (last.tok.iat + 1) * TicksPerSec
    /\ cache = << >>

\* C16: access tokens cannot be revoked one by one: in every state an
\* unexpired, validly signed access token is accepted by verify_access_token
\* of apps/user/utils.py and of apps/oauth2/utils.py, whatever the store
\* holds and whether it is reachable or not, also after the refresh token
\* issued with it has been rotated or logged out.
C16_AccessNotRevocable ==
    /\ \A x \in tokens :
          (x.typ = "access" /\ Unexpired(x, now)) =>
             IF app = "user" THEN verify_access_token(x, now) = OK
             ELSE oauth2_verify_access_token(x, now) = OK
    /\ (last.op = "verify_access_token" /\ Genuine(last.tok, "access")
          /\ Unexpired(last.tok, now)) => last.out = OK

\* an access token was accepted while the store was down and the refresh
\* token of its pair was blacklisted
C16_Witness ==
    /\ app = "user"
    /\ last.op = "verify_access_token"
    /\ Genuine(last.tok, "access")
    /\ ~last.up
    /\ \E r \in tokens : /\ r.typ = "refresh" /\ r.jti = last.tok.jti + 1
                         /\ r.iat = last.tok.iat
                         /\ _is_refresh_blacklisted(cache, r.jti, now)
    /\ last.out = OK

\* the tokens verify_refresh_token refuses before it gets to the store
RefusedOnDecode(x, t) ==
    x.wire = "malformed" \/ ~SignatureMatches(x) \/ ~Unexpired(x, t) \/ x.typ = "access"

\* what apps/user/utils.py verify_refresh_token raises for such a token
DecodeFailure(x, t) ==
    IF x.wire = "malformed" THEN DecodeError
    ELSE IF ~SignatureMatches(x) THEN InvalidSignatureError
    ELSE IF ~Unexpired(x, t) THEN ExpiredSignatureError
    ELSE NotRefresh

CacheWritten ==
    \E k \in DOMAIN cache' : k \notin DOMAIN cache \/ cache'[k] # cache[k]

\* C18: apps/user/utils.py: generate_jwt_tokens, verify_access_token and
\* verify_refresh_token leave the cache exactly as it was, and the first two
\* do not depend on it (they return the same with the store down); a
\* blacklist record is created or rewritten only by refresh_access_token with
\* rotation (and blacklist) on and by logout; between these the records only
\* run out with their TTL, so that a token expires without any store write.
C18_StoreFrame ==
    /\ [][/\ last'.op \in {"generate_jwt_tokens", "verify_access_token",
                            "verify_refresh_token"} => cache' = cache
          /\ CacheWritten =>
                /\ last'.op \in {"refresh_access_token", "logout"}
                /\ JWT_REFRESH_BLACKLIST
                /\ last'.op = "refresh_access_token" => JWT_REFRESH_ROTATE
                /\ DOMAIN cache' = DOMAIN cache \cup {_blacklist_key(last'.tok.jti)}
          /\ (\E x \in tokens : Unexpired(x, now) /\ ~Unexpired(x, now'))
                => ~CacheWritten]_vars
    /\ [](last.op = "generate_jwt_tokens" => last.out = OK)
    /\ [](\A x \in tokens :
             verify_access_token(x, now)
                = (IF Unexpired(x, now) /\ x.typ = "access" THEN OK ELSE None))

\* a refresh token was found expired by verify_refresh_token with no record
\* ever written
C18_Witness ==
    /\ app = "user"
    /\ last.op = "verify_refresh_token"
    /\ Genuine(last.tok, "refresh")
    /\ last.out = ExpiredSignatureError
    /\ blacklisted = {}
    /\ cache = << >>
    /\ last.up

\* C19: apps/user/utils.py: distinct issued tokens never share a token id,
\* and a rotation or a logout blacklists the id of the presented token only:
\* no other refresh token has a record, and every other unexpired refresh
\* token that was not itself rotated or logged out, those of the same user's
\* other logins included, is accepted by verify_refresh_token afterwards.
C19_IndependentSessions ==
    app = "user" =>
        /\ \A x, y \in tokens : x # y => x.jti # y.jti
        /\ \A y \in tokens :
              (y.typ = "refresh" /\ Unexpired(y, now) /\ y.jti \notin blacklisted) =>
                 /\ ~_is_refresh_blacklisted(cache, y.jti, now)
                 /\ verify_refresh_token(y, cache, TRUE, JWT_REFRESH_BLACKLIST, now) = OK
                 /\ (/\ last.op \in {"refresh_access_token", "logout"}
                     /\ last.out \in {OK, None}
                     /\ Jti(last.tok) \in blacklisted
                     /\ last.up)
                    => verify_refresh_token(y, cache, storeUp, JWT_REFRESH_BLACKLIST, now)
                          = OK

\* a user has logged in twice and logged out of one session: the refresh
\* token of the other session is still accepted
C19_Witness ==
    /\ app = "user"
    /\ last.op = "logout"
    /\ Genuine(last.tok, "refresh")
    /\ _is_refresh_blacklisted(cache, last.tok.jti, now)
    /\ \E y \in tokens :
          /\ y.typ = "refresh" /\ y # last.tok /\ y.sub = last.tok.sub
          /\ y.jti \notin blacklisted
          /\ verify_refresh_token(y, cache, storeUp, JWT_REFRESH_BLACKLIST, now) = OK

\* the strings of user u that apps/oauth2/utils.py verify_refresh_token
\* accepts, the store answering or as it is
Accepted(u, up) ==
    {x \in Presentable :
        /\ x.wire # "malformed"
        /\ x.user_id = u
        /\ oauth2_verify_refresh_token(x, redis, _client, up, now).out = OK}

\* C20: apps/oauth2/utils.py: in every state and for every user at most one
\* refresh token string is accepted by verify_refresh_token, the one stored
\* under jwt:refresh:<user_id>; with the key absent none is accepted.
C20_OneRefreshPerUser ==
    app = "oauth2" =>
        \A u \in Users :
           LET stored_token == Get(redis, RedisKey(u), now) IN
           /\ Cardinality(Accepted(u, TRUE)) <= 1
           /\ Accepted(u, TRUE) \subseteq {stored_token}
           /\ Accepted(u, storeUp) \subseteq Accepted(u, TRUE)
           /\ stored_token = Nil => Accepted(u, TRUE) = {}
           /\ (stored_token # Nil /\ stored_token \in tokens /\ Unexpired(stored_token, now))
                 => Accepted(u, TRUE) = {stored_token}

\* a user has logged in twice, in different seconds: the refresh token of the
\* first login was presented and refused, the second one is the stored one
C20_Witness ==
    /\ app = "oauth2"
    /\ last.op = "verify_refresh_token"
    /\ Genuine(last.tok, "refresh")
    /\ Unexpired(last.tok, now)
    /\ last.up
    /\ last.out = None
    /\ \E y \in tokens :
          /\ y.typ = "refresh" /\ y.user_id = last.tok.user_id /\ y # last.tok
          /\ Accepted(y.user_id, TRUE) = {y}

\* the step is a call of apps/oauth2/utils.py that returned a new pair for
\* user u: generate_jwt_tokens(u) at a login, or refresh_access_token with a
\* refresh token of u
IssuesPairFor(u) ==
    /\ app = "oauth2"
    /\ last'.op \in {"generate_jwt_tokens", "refresh_access_token"}
    /\ last'.out = OK
    /\ last'.ret.refresh_token.user_id = u

\* the refresh tokens handed out to user u so far
HandedOut(u) == {x \in tokens : x.typ = "refresh" /\ x.user_id = u}

C22_LogoutAlwaysSuccess ==
    last.op = "LogoutView.post" =>
        /\ last.status = HTTP_200_OK
        /\ last.raised = None

\* C23 (as claimed): the refresh endpoint of either module has two outcomes
\* for a request that carries a refresh_token: verification succeeded and the
\* response fields access_token and refresh_token hold the newly issued token
\* strings, or verification failed and the response is 401, no exception
\* leaving the handler.
C23_RefreshTwoOutcomes ==
    last.op = "RefreshView.post" =>
        IF last.verified
        THEN /\ last.status = HTTP_200_OK
             /\ last.body.access_token # Nil
             /\ last.body.refresh_token # Nil
        ELSE /\ last.status = HTTP_401_UNAUTHORIZED
             /\ last.raised = None

\* the class of the exception an outcome stands for: the two refusals raised
\* by verify_refresh_token itself are both plain jwt.InvalidTokenError and
\* differ in their message only
ExcClass(outcome) ==
    IF outcome \in {NotRefresh, Blacklisted} THEN "jwt.InvalidTokenError" ELSE outcome

\* what is wrong with the presented string x as a token of type typ
Defects(x, typ) ==
    IF x.wire = "malformed" THEN {"SignatureInvalid/Malformed"}
    ELSE (IF SignatureMatches(x) THEN {} ELSE {"SignatureInvalid/Malformed"})
         \cup (IF Unexpired(x, now) THEN {} ELSE {"Expired"})
         \cup (IF x.typ = typ THEN {} ELSE {"WrongTokenType"})
         \cup (IF typ = "refresh" /\ x.typ = "refresh"
                   /\ _is_refresh_blacklisted(cache, x.jti, now)
                THEN {"Revoked"} ELSE {})

\* C24 (as claimed): apps/user/utils.py: two presented strings that fail for
\* different single causes (Expired, SignatureInvalid/Malformed,
\* WrongTokenType, Revoked) get different error values from
\* verify_refresh_token, and likewise from verify_access_token.
C24_FailureCausesDistinct ==
    (app = "user" /\ storeUp) =>
        \A x, y \in Presentable :
           /\ (/\ Cardinality(Defects(x, "refresh")) = 1
               /\ Cardinality(Defects(y, "refresh")) = 1
               /\ Defects(x, "refresh") # Defects(y, "refresh"))
              => verify_refresh_token(x, cache, storeUp, JWT_REFRESH_BLACKLIST, now)
                    # verify_refresh_token(y, cache, storeUp, JWT_REFRESH_BLACKLIST, now)
           /\ (/\ Cardinality(Defects(x, "access")) = 1
               /\ Cardinality(Defects(y, "access")) = 1
               /\ Defects(x, "access") # Defects(y, "access"))
              => verify_access_token(x, now) # verify_access_token(y, now)

\* C24 (amended): apps/user/utils.py, the store reachable: verify_refresh_token
\* raises a different exception value for each of the four causes; Expired and
\* SignatureInvalid/Malformed have exception classes of their own, while
\* WrongTokenType and Revoked are the same class jwt.InvalidTokenError with
\* different messages.  A string without defect is accepted.
\* verify_access_token returns None for every cause.
C24_RefreshCausesNamedAccessCollapsed ==
    (app = "user" /\ storeUp) =>
        /\ \A x, y \in Presentable :
              LET ox == verify_refresh_token(x, cache, storeUp, JWT_REFRESH_BLACKLIST, now)
                  oy == verify_refresh_token(y, cache, storeUp, JWT_REFRESH_BLACKLIST, now)
                  dx == Defects(x, "refresh")
                  dy == Defects(y, "refresh")
              IN  (Cardinality(dx) = 1 /\ Cardinality(dy) = 1 /\ dx # dy) =>
                     /\ ox \in Raises /\ oy \in Raises
                     /\ ox # oy
                     /\ ExcClass(ox) = ExcClass(oy)
                           <=> dx \cup dy = {"WrongTokenType", "Revoked"}
        /\ \A x \in Presentable :
              /\ Defects(x, "refresh") = {}
                    <=> verify_refresh_token(x, cache, storeUp, JWT_REFRESH_BLACKLIST, now) = OK
              /\ Defects(x, "access") = {} <=> verify_access_token(x, now) = OK
              /\ Defects(x, "access") # {} <=> verify_access_token(x, now) = None

\* a revoked refresh token was presented to verify_refresh_token and refused
\* as blacklisted, while an unexpired access token of the same login (wrong
\* type, no other defect) and a string that does not parse are at hand
C24_Witness ==
    /\ app = "user"
    /\ storeUp
    /\ last.op = "verify_refresh_token"
    /\ last.out = Blacklisted
    /\ Defects(last.tok, "refresh") = {"Revoked"}
    /\ \E y \in tokens : Defects(y, "refresh") = {"WrongTokenType"}
    /\ \E z \in Presentable : /\ Defects(z, "refresh") = {"SignatureInvalid/Malformed"}
                              /\ z.wire = "badsig"

\* C25 (as claimed): every token _make_jwt produces, for every ttl_seconds
\* including 0 and negative values, has nbf <= iat < exp.
C25_ClaimOrder ==
    (app = "user" /\ last.op = "_make_jwt") =>
        /\ last.ret.token.nbf <= last.ret.token.iat
        /\ last.ret.token.iat < last.ret.token.exp

\* C25 (amended): every token _make_jwt produces has nbf = iat and
\* exp = iat + ttl_seconds, so nbf <= iat < exp holds exactly for
\* ttl_seconds >= 1 (as for the tokens of generate_jwt_tokens); with
\* ttl_seconds = 0 exp equals iat and with a negative one exp lies before iat.
C25_ClaimOrderIffPositiveTtl ==
    app = "user" =>
        /\ last.op = "_make_jwt" =>
              /\ last.ret.token.nbf = last.ret.token.iat
              /\ last.ret.token.exp = last.ret.token.iat + last.ttl
              /\ last.ret.token.iat < last.ret.token.exp <=> last.ttl >= 1
        /\ \A x \in tokens : x.nbf = x.iat
        /\ \A u \in Users :
              LET pair == generate_jwt_tokens(u, now, nextJti) IN
              /\ pair.access.nbf <= pair.access.iat
              /\ pair.access.iat < pair.access.exp
              /\ pair.refresh.nbf <= pair.refresh.iat
              /\ pair.refresh.iat < pair.refresh.exp

\* _make_jwt was called with ttl_seconds = 0 and returned a token whose exp
\* equals its iat
C25_Witness ==
    /\ app = "user"
    /\ last.op = "_make_jwt"
    /\ last.ttl = 0
    /\ last.ret.token.exp = last.ret.token.iat
    /\ last.ret.token \in tokens

\* the call that returned in the last step wrote the revocation record of the
\* token presented to it, at the current clock value
WroteRecord ==
    /\ app = "user"
    /\ JWT_REFRESH_BLACKLIST
    /\ \/ last.op = "refresh_access_token" /\ last.out = OK /\ JWT_REFRESH_ROTATE
       \/ /\ last.op = "logout"
          /\ last.out = None
          /\ Genuine(last.tok, "refresh")
          /\ Unexpired(last.tok, now)

\* C26: apps/user/utils.py: the revocation record a rotation or a logout
\* writes for a refresh token with expiry exp, at clock value now (in whole
\* seconds), has TTL exp - now when that is at least 1 and TTL 1 otherwise;
\* the TTL is never zero or negative, and while the token is unexpired its
\* record is in the store: a record runs out no earlier than its token.
C26_RecordTtl ==
    app = "user" =>
        /\ WroteRecord =>
              LET key == _blacklist_key(last.tok.jti)
                  remaining == last.tok.exp - IntTime(now)
                  ttl == IF remaining >= 1 THEN remaining ELSE 1
              IN  /\ key \in DOMAIN cache
                  /\ cache[key] = now + ttl * TicksPerSec
                  /\ ttl = BlacklistTtl(last.tok.exp, now)
                  /\ ttl >= 1
        /\ \A x \in tokens :
              (x.typ = "refresh" /\ x.jti \in blacklisted) =>
                 /\ Unexpired(x, now) => _blacklist_key(x.jti) \in DOMAIN cache
                 /\ _blacklist_key(x.jti) \in DOMAIN cache =>
                       /\ cache[_blacklist_key(x.jti)] >= x.exp * TicksPerSec
                       /\ cache[_blacklist_key(x.jti)] > now

\* a refresh_access_token call verified its token, the token expired before
\* the call reached its blacklist write, and the record got the TTL of one
\* second
C26_Witness ==
    /\ WroteRecord
    /\ last.op = "refresh_access_token"
    /\ ~Unexpired(last.tok, now)
    /\ cache[_blacklist_key(last.tok.jti)] = now + TicksPerSec

\* C27: apps/user/utils.py: revocation happens only with
\* JWT_REFRESH_BLACKLIST on.  With it off no call reads or writes the store
\* (the store stays empty, every call returns the same with the store
\* unreachable), and a refresh token is accepted by refresh_access_token
\* until it expires, also after it has been rotated and after logout.  A
\* second refresh_access_token with the same token is refused as blacklisted
\* only when both settings are on.
C27_RevocationNeedsBlacklistFlag ==
    app = "user" =>
        /\ ~JWT_REFRESH_BLACKLIST =>
              /\ cache = << >>
              /\ blacklisted = {}
              /\ \A x \in Presentable :
                    /\ refresh_access_token(x, cache, TRUE, JWT_REFRESH_ROTATE,
                                            JWT_REFRESH_BLACKLIST, now, nextJti)
                          = refresh_access_token(x, cache, FALSE, JWT_REFRESH_ROTATE,
                                                 JWT_REFRESH_BLACKLIST, now, nextJti)
                    /\ logout(x, cache, TRUE, JWT_REFRESH_BLACKLIST, now)
                          = [out |-> None, cache |-> cache]
                    /\ logout(x, cache, FALSE, JWT_REFRESH_BLACKLIST, now)
                          = [out |-> None, cache |-> cache]
                    /\ (Genuine(x, "refresh") /\ Unexpired(x, now)) =>
                          refresh_access_token(x, cache, storeUp, JWT_REFRESH_ROTATE,
                                               JWT_REFRESH_BLACKLIST, now, nextJti).out = OK
              /\ (/\ last.op = "refresh_access_token"
                  /\ Genuine(last.tok, "refresh")
                  /\ Unexpired(last.tok, now)) => last.out = OK
        /\ (/\ last.op = "refresh_access_token"
            /\ last.again
            /\ Genuine(last.tok, "refresh")
            /\ Unexpired(last.tok, now)
            /\ last.up)
           => IF JWT_REFRESH_ROTATE /\ JWT_REFRESH_BLACKLIST THEN last.out = Blacklisted
              ELSE IF last.revoked THEN last.out = Blacklisted /\ JWT_REFRESH_BLACKLIST
              ELSE last.out = OK

\* rotation on, blacklist off: logout has just returned for a refresh token
\* that had been used for a successful refresh before, while the store is
\* unreachable; the token is still accepted by refresh_access_token
C27_Witness ==
    /\ app = "user"
    /\ JWT_REFRESH_ROTATE /\ ~JWT_REFRESH_BLACKLIST
    /\ last.op = "logout"
    /\ ~last.up
    /\ Genuine(last.tok, "refresh")
    /\ Unexpired(last.tok, now)
    /\ last.tok \in DOMAIN refreshed
    /\ refresh_access_token(last.tok, cache, storeUp, JWT_REFRESH_ROTATE,
                            JWT_REFRESH_BLACKLIST, now, nextJti).out = OK

\* C28 (as claimed): apps/oauth2/utils.py: whenever generate_jwt_tokens
\* returns a pair for a user, at a login or in refresh_access_token, the
\* returned refresh token is the value stored under jwt:refresh:<user id>, so
\* that verify_refresh_token accepts it once the store is reachable; no pair
\* is returned whose refresh token was not stored.
C28_ReturnedRefreshIsStored ==
    (/\ app = "oauth2"
     /\ last.op \in {"generate_jwt_tokens", "refresh_access_token"}
     /\ last.out = OK)
    => /\ Get(redis, RedisKey(last.ret.refresh_token.user_id), now) = last.ret.refresh_token
       /\ oauth2_verify_refresh_token(last.ret.refresh_token, redis, _client, TRUE, now).out
             = OK

\* no refresh token of user u is accepted by apps/oauth2/utils.py
\* verify_refresh_token (only the stored string can be)
NoneAccepted(u) ==
    LET stored_token == Get(redis, RedisKey(u), now) IN
    \/ stored_token = Nil
    \/ oauth2_verify_refresh_token(stored_token, redis, _client, TRUE, now).out # OK

\* C29 (as claimed): apps/oauth2/utils.py: once logout(U) has returned True,
\* no refresh token of U is accepted by verify_refresh_token until a login
\* for U issues a new one, also when a refresh_access_token call for U had
\* passed its verify step before the logout.
C29_LogoutHoldsUntilLogin ==
    app = "oauth2" =>
        /\ \A u \in loggedOut : NoneAccepted(u)
        /\ (last.op = "verify_refresh_token" /\ last.tok.wire = "ok"
              /\ last.tok.user_id \in loggedOut) => last.out # OK

---------------------------------------------------------------------------
(* The Redis client singleton on its own: apps/oauth2/redis_client.py *)

\* RedisClient().get_client() called directly
GetClient ==
    /\ app = "oauth2"
    /\ LET g == get_client(_client, storeUp) IN
       /\ _client' = g.client
       /\ last' = [op |-> "get_client", out |-> g.out, up |-> storeUp,
                   before |-> _client,
                   ret |-> IF g.out = OK THEN g.client ELSE "None"]
    /\ UNCHANGED <<app, now, storeUp, JWT_REFRESH_ROTATE, JWT_REFRESH_BLACKLIST, tokens,
                   nextJti, cache, redis, procs, room, blacklisted, refreshed,
                   loggedOut>>

\* RedisClient().close(): an existing client is closed and forgotten
Close ==
    /\ app = "oauth2"
    /\ _client' = "None"
    /\ last' = [op |-> "close", before |-> _client]
    /\ UNCHANGED <<app, now, storeUp, JWT_REFRESH_ROTATE, JWT_REFRESH_BLACKLIST, tokens,
                   nextJti, cache, redis, procs, room, blacklisted, refreshed,
                   loggedOut>>

InitRedis ==
    /\ app = "oauth2"
    /\ now = TicksPerSec
    /\ storeUp = TRUE
    /\ JWT_REFRESH_ROTATE = TRUE
    /\ JWT_REFRESH_BLACKLIST = TRUE
    /\ tokens = {}
    /\ nextJti = 1
    /\ cache = << >>
    /\ redis = << >>
    /\ _client = "None"
    /\ procs = << >>
    /\ room = [tokens |-> MaxTokensRedis, wires |-> {"badsig"}]
    /\ last = NoCall
    /\ blacklisted = {}
    /\ refreshed = << >>
    /\ loggedOut = {}

NextRedis ==
    \/ GetClient
    \/ Close
    \/ \E u \in Users : OAuthLogin(u)
    \/ \E x \in Presentable : OAuthVerifyRefresh(x)
    \/ \E x \in Presentable : OAuthRefresh(x)
    \/ \E u \in Users : OAuthLogout(u)
    \/ Tick
    \/ StoreFlip

SpecRedis == InitRedis /\ [][NextRedis]_vars

\* C30 (as claimed): apps/oauth2/redis_client.py: a get_client call either
\* raises or returns a client whose ping has succeeded since it was created.
C30_ReturnedClientWasPinged ==
    (last.op = "get_client" /\ last.out = OK) => last.ret = "pinged"

\* C30 (amended): get_client creates and pings a client only when none is
\* kept: it then raises exactly when the ping fails, and the client whose ping
\* failed stays in _client.  A kept client is returned as it is, without a
\* ping, so after a failed ping the calls that follow return the untested
\* client until close() is called; after close() no client is kept and the
\* next get_client creates and pings a new one.
C30_PingOnlyOnCreation ==
    /\ last.op = "get_client" =>
         /\ last.before = "None" =>
              /\ last.out = OK <=> last.up
              /\ last.out = OK => last.ret = "pinged" /\ _client = "pinged"
              /\ last.out # OK =>
                   last.out = RedisConnectionError /\ _client = "unpinged"
         /\ last.before # "None" =>
              last.out = OK /\ last.ret = last.before /\ _client = last.before
    /\ last.op = "close" => _client = "None"

\* a get_client call has returned the client whose ping failed earlier
C30_Witness ==
    /\ last.op = "get_client"
    /\ last.out = OK
    /\ last.ret = "unpinged"
    /\ last.before = "unpinged"

====
